---- MODULE Spec2Model ----
(***************************************************************************)
(* Widevine proxy client (package widevineproxy): envelope construction,   *)
(* signing, endpoint resolution, dispatch and response decoding.           *)
(*                                                                         *)
(* Go strings and []byte values are sequences of byte values 0..255.       *)
(* encoding/base64 and encoding/json are computed on those bytes.          *)
(***************************************************************************)
EXTENDS Integers, Sequences, FiniteSets, TLC

VARIABLES
    wp,        \* the Proxy: PartnerRootKey, PartnerRootIV, Provider, ContentKeyGenerator
    calls,     \* the calls of GetLicense / GetContentKey, numbered as they start
    httpLog,   \* every request handed to httpCaller.Do: the call, its n-th request
    signLog,   \* every call of generateSignature: the call, the payload, the result
    started    \* the number of calls started so far

vars == <<wp, calls, httpLog, signLog, started>>

(***************************************************************************)
(* String constants of the program, as bytes.                              *)
(***************************************************************************)
widevineModularUATGetLicenseURL == <<104, 116, 116, 112, 115, 58, 47, 47, 108, 105, 99, 101, 110, 115, 101, 46, 117, 97, 116, 46, 119, 105, 100, 101, 118, 105, 110, 101, 46, 99, 111, 109, 47, 99, 101, 110, 99, 47, 103, 101, 116, 108, 105, 99, 101, 110, 115, 101, 47>>  \* https://license.uat.widevine.com/cenc/getlicense/
widevineModularUATGetKeyURL == <<104, 116, 116, 112, 115, 58, 47, 47, 108, 105, 99, 101, 110, 115, 101, 46, 117, 97, 116, 46, 119, 105, 100, 101, 118, 105, 110, 101, 46, 99, 111, 109, 47, 99, 101, 110, 99, 47, 103, 101, 116, 99, 111, 110, 116, 101, 110, 116, 107, 101, 121, 47>>  \* https://license.uat.widevine.com/cenc/getcontentkey/
widevineModularStagingGetLicenseURL == <<104, 116, 116, 112, 115, 58, 47, 47, 108, 105, 99, 101, 110, 115, 101, 46, 115, 116, 97, 103, 105, 110, 103, 46, 119, 105, 100, 101, 118, 105, 110, 101, 46, 99, 111, 109, 47, 99, 101, 110, 99, 47, 103, 101, 116, 108, 105, 99, 101, 110, 115, 101, 47>>  \* https://license.staging.widevine.com/cenc/getlicense/
widevineModularStagingGetKeyURL == <<104, 116, 116, 112, 115, 58, 47, 47, 108, 105, 99, 101, 110, 115, 101, 46, 115, 116, 97, 103, 105, 110, 103, 46, 119, 105, 100, 101, 118, 105, 110, 101, 46, 99, 111, 109, 47, 99, 101, 110, 99, 47, 103, 101, 116, 99, 111, 110, 116, 101, 110, 116, 107, 101, 121, 47>>  \* https://license.staging.widevine.com/cenc/getcontentkey/
widevineModularProductionGetLicenseURL == <<104, 116, 116, 112, 115, 58, 47, 47, 108, 105, 99, 101, 110, 115, 101, 46, 119, 105, 100, 101, 118, 105, 110, 101, 46, 99, 111, 109, 47, 99, 101, 110, 99, 47, 103, 101, 116, 108, 105, 99, 101, 110, 115, 101, 47>>  \* https://license.widevine.com/cenc/getlicense/
widevineModularProductionGetKeyURL == <<104, 116, 116, 112, 115, 58, 47, 47, 108, 105, 99, 101, 110, 115, 101, 46, 119, 105, 100, 101, 118, 105, 110, 101, 46, 99, 111, 109, 47, 99, 101, 110, 99, 47, 103, 101, 116, 99, 111, 110, 116, 101, 110, 116, 107, 101, 121, 47>>  \* https://license.widevine.com/cenc/getcontentkey/
WidevineTest == <<119, 105, 100, 101, 118, 105, 110, 101, 95, 116, 101, 115, 116>>  \* widevine_test
SD_UHD1 == <<83, 68, 95, 85, 72, 68, 49>>  \* SD_UHD1
PurposeLicense == <<108, 105, 99, 101, 110, 115, 101>>  \* license
PurposeKey == <<107, 101, 121>>  \* key
KPayload == <<112, 97, 121, 108, 111, 97, 100>>  \* payload
KContentID == <<99, 111, 110, 116, 101, 110, 116, 95, 105, 100>>  \* content_id
KProvider == <<112, 114, 111, 118, 105, 100, 101, 114>>  \* provider
KAllowedTrackTypes == <<97, 108, 108, 111, 119, 101, 100, 95, 116, 114, 97, 99, 107, 95, 116, 121, 112, 101, 115>>  \* allowed_track_types
KContentKeySpecs == <<99, 111, 110, 116, 101, 110, 116, 95, 107, 101, 121, 95, 115, 112, 101, 99, 115>>  \* content_key_specs
KKeyID == <<107, 101, 121, 95, 105, 100>>  \* key_id
KKey == <<107, 101, 121>>  \* key
KIV == <<105, 118>>  \* iv
KTrackType == <<116, 114, 97, 99, 107, 95, 116, 121, 112, 101>>  \* track_type
KTracks == <<116, 114, 97, 99, 107, 115>>  \* tracks
KDrmTypes == <<100, 114, 109, 95, 116, 121, 112, 101, 115>>  \* drm_types
KPolicy == <<112, 111, 108, 105, 99, 121>>  \* policy
KType == <<116, 121, 112, 101>>  \* type
KResponse == <<114, 101, 115, 112, 111, 110, 115, 101>>  \* response
KStatus == <<115, 116, 97, 116, 117, 115>>  \* status
KAlreadyUsed == <<97, 108, 114, 101, 97, 100, 121, 95, 117, 115, 101, 100>>  \* already_used
KSecurityLevel == <<115, 101, 99, 117, 114, 105, 116, 121, 95, 108, 101, 118, 101, 108>>  \* security_level
KLicense == <<108, 105, 99, 101, 110, 115, 101>>  \* license
LitNull == <<110, 117, 108, 108>>  \* null
LitTrue == <<116, 114, 117, 101>>  \* true
LitFalse == <<102, 97, 108, 115, 101>>  \* false

(***************************************************************************)
(* encoding/base64, StdEncoding (padded, alphabet A-Z a-z 0-9 + /).        *)
(***************************************************************************)
B64Char(i) ==
    IF i < 26 THEN 65 + i
    ELSE IF i < 52 THEN 97 + (i - 26)
    ELSE IF i < 62 THEN 48 + (i - 52)
    ELSE IF i = 62 THEN 43 ELSE 47

\* decodeMap: the 6-bit value of a character, 255 for a character outside
\* the alphabet (the padding character '=' included).
B64Val(c) ==
    IF c >= 65 /\ c <= 90 THEN c - 65
    ELSE IF c >= 97 /\ c <= 122 THEN c - 97 + 26
    ELSE IF c >= 48 /\ c <= 57 THEN c - 48 + 52
    ELSE IF c = 43 THEN 62
    ELSE IF c = 47 THEN 63 ELSE 255

\* base64.StdEncoding.EncodeToString: character k of the output belongs
\* to the group of three bytes that starts at byte 3 * ((k-1) \div 4) + 1.
B64Encode(b) ==
    LET n == Len(b)
        At(i) == IF i <= n THEN b[i] ELSE 0
    IN  [k \in 1..(4 * ((n + 2) \div 3)) |->
           LET i == 3 * ((k - 1) \div 4) + 1
               r == (k - 1) % 4
           IN  IF r = 0 THEN B64Char(At(i) \div 4)
               ELSE IF r = 1 THEN B64Char((At(i) % 4) * 16 + (At(i + 1) \div 16))
               ELSE IF r = 2 THEN
                   (IF i + 1 > n THEN 61
                    ELSE B64Char((At(i + 1) % 16) * 4 + (At(i + 2) \div 64)))
               ELSE (IF i + 2 > n THEN 61 ELSE B64Char(At(i + 2) % 64))]

\* The bytes of one quantum of j decoded characters d (j in 2..4).
B64QuantumBytes(d, j) ==
    LET d3 == IF j >= 3 THEN d[3] ELSE 0
        d4 == IF j >= 4 THEN d[4] ELSE 0
        val == d[1] * 262144 + d[2] * 4096 + d3 * 64 + d4
        b0 == val \div 65536
        b1 == (val \div 256) % 256
        b2 == val % 256
    IN  IF j = 4 THEN <<b0, b1, b2>>
        ELSE IF j = 3 THEN <<b0, b1>> ELSE <<b0>>

\* decodeQuantum on a quantum at position i that is not four characters of
\* the alphabet: the end of the input, padding, or a corrupt input.  As in
\* Go, garbage after correct padding is an error that still yields the
\* padded quantum's bytes.  '\r' and '\n' (skipped by Go) are outside the
\* alphabets of this model.
B64LastQuantum(s, i) ==
    LET n == Len(s) - i + 1
        Ok(k) == k <= n /\ B64Val(s[i + k - 1]) # 255
        D(k) == B64Val(s[i + k - 1])
    IN  IF n <= 0 THEN [bytes |-> <<>>, err |-> FALSE]
        ELSE IF ~Ok(1) \/ ~Ok(2) THEN [bytes |-> <<>>, err |-> TRUE]
        ELSE IF Ok(3) THEN
            \* three characters, then '=' must follow
            IF n >= 4 /\ s[i + 3] = 61
            THEN [bytes |-> B64QuantumBytes(<<D(1), D(2), D(3)>>, 3),
                  err |-> n > 4]
            ELSE [bytes |-> <<>>, err |-> TRUE]
        ELSE
            \* two characters, then "==" must follow
            IF n >= 4 /\ s[i + 2] = 61 /\ s[i + 3] = 61
            THEN [bytes |-> B64QuantumBytes(<<D(1), D(2)>>, 2),
                  err |-> n > 4]
            ELSE [bytes |-> <<>>, err |-> TRUE]

\* base64.StdEncoding.DecodeString: the quanta of four characters of the
\* alphabet decode to three bytes each; the first other quantum ends the
\* decoding.  A corrupt input still yields the bytes decoded before it.
B64DecodeString(s) ==
    LET nq == Len(s) \div 4
        Full(q) == \A k \in 1..4 : B64Val(s[4 * q + k]) # 255
        notFull == {q \in 0..(nq - 1) : ~Full(q)}
        stop == IF notFull = {} THEN nq
                ELSE CHOOSE q \in notFull : \A r \in notFull : q <= r
        \* byte m of the full quanta: of the 24 bits of its quantum's four
        \* characters, the first, second or third group of eight
        head == [m \in 1..(3 * stop) |->
                   LET D(k) == B64Val(s[4 * ((m - 1) \div 3) + k])
                       r == (m - 1) % 3
                   IN  IF r = 0 THEN D(1) * 4 + (D(2) \div 16)
                       ELSE IF r = 1 THEN (D(2) % 16) * 16 + (D(3) \div 4)
                       ELSE (D(3) % 4) * 64 + D(4)]
        last == B64LastQuantum(s, 4 * stop + 1)
    IN  [bytes |-> head \o last.bytes, err |-> last.err]

(***************************************************************************)
(* encoding/json.  A JSON value is [t, v]: t its kind, v its content       *)
(* (a string's bytes, an array's elements, an object's <<key, value>>      *)
(* members in document order, <<n>> for a number, <<0>>/<<1>> for a bool). *)
(***************************************************************************)
JNull == [t |-> "null", v |-> <<>>]
JBool(b) == [t |-> "bool", v |-> <<IF b THEN 1 ELSE 0>>]
JNum(n) == [t |-> "num", v |-> <<n>>]
JStr(s) == [t |-> "str", v |-> s]
JArr(a) == [t |-> "arr", v |-> a]
JObj(o) == [t |-> "obj", v |-> o]

\* A Go slice: nil, or a (possibly empty) sequence of elements.
NilSlice == [isNil |-> TRUE, e |-> <<>>]
Slice(e) == [isNil |-> FALSE, e |-> e]

HexDigit(d) == IF d < 10 THEN 48 + d ELSE 97 + (d - 10)

\* A UTF-8 continuation byte.
IsCont(b) == b >= 128 /\ b <= 191

\* utf8.DecodeRuneInString at position i of s: the length of the encoding
\* that starts there, 0 when the bytes there are not valid UTF-8.
UTF8RuneLen(s, i) ==
    LET b == s[i]
        At(k) == IF i + k <= Len(s) THEN s[i + k] ELSE 0
    IN  IF b < 128 THEN 1
        ELSE IF b >= 194 /\ b <= 223 THEN (IF IsCont(At(1)) THEN 2 ELSE 0)
        ELSE IF b >= 224 /\ b <= 239 THEN
            (IF /\ At(1) >= (IF b = 224 THEN 160 ELSE 128)
                /\ At(1) <= (IF b = 237 THEN 159 ELSE 191)
                /\ IsCont(At(2))
             THEN 3 ELSE 0)
        ELSE IF b >= 240 /\ b <= 244 THEN
            (IF /\ At(1) >= (IF b = 240 THEN 144 ELSE 128)
                /\ At(1) <= (IF b = 244 THEN 143 ELSE 191)
                /\ IsCont(At(2)) /\ IsCont(At(3))
             THEN 4 ELSE 0)
        ELSE 0

\* Every byte of s belongs to a valid UTF-8 encoding (utf8.ValidString).
\* A lead byte is never inside another encoding, so a byte is covered when
\* an encoding starts at it or up to three bytes before it.
ValidUTF8(s) ==
    \A i \in 1..Len(s) :
        \/ UTF8RuneLen(s, i) > 0
        \/ IsCont(s[i]) /\ \E k \in 1..3 : i - k >= 1 /\ UTF8RuneLen(s, i - k) > k

\* encodeState.string with escapeHTML: one byte of a Go string that is
\* below 0x80, or that is not part of a valid UTF-8 encoding, which the
\* encoder replaces by the escape of U+FFFD.
JSONEscapeByte(b) ==
    IF b = 34 \/ b = 92 THEN <<92, b>>
    ELSE IF b = 10 THEN <<92, 110>>
    ELSE IF b = 13 THEN <<92, 114>>
    ELSE IF b = 9 THEN <<92, 116>>
    ELSE IF b < 32 \/ b = 60 \/ b = 62 \/ b = 38
        THEN <<92, 117, 48, 48, HexDigit(b \div 16), HexDigit(b % 16)>>
    ELSE IF b >= 128 THEN <<92, 117, 102, 102, 102, 100>>
    ELSE <<b>>

\* The concatenation of the sequences f[lo], ..., f[hi].
RECURSIVE ConcatRange(_, _, _)
ConcatRange(f, lo, hi) ==
    IF lo > hi THEN <<>>
    ELSE IF lo = hi THEN f[lo]
    ELSE LET mid == (lo + hi) \div 2 IN
         ConcatRange(f, lo, mid) \o ConcatRange(f, mid + 1, hi)

\* encodeState.string at position i of s: a valid multi-byte encoding is
\* copied (its lead byte here, its continuation bytes at their positions),
\* except U+2028 and U+2029, which are escaped.
JSONEscapeAt(s, i) ==
    LET LineSep(j) == /\ j >= 1 /\ j + 2 <= Len(s)
                      /\ s[j] = 226 /\ s[j + 1] = 128 /\ s[j + 2] \in {168, 169}
    IN  IF s[i] < 128 THEN JSONEscapeByte(s[i])
        ELSE IF UTF8RuneLen(s, i) > 1 THEN
            (IF LineSep(i) THEN <<92, 117, 50, 48, 50, HexDigit(s[i + 2] % 16)>>
             ELSE <<s[i]>>)
        ELSE IF IsCont(s[i]) /\ \E k \in 1..3 : i - k >= 1 /\ UTF8RuneLen(s, i - k) > k THEN
            (IF LineSep(i - 1) \/ LineSep(i - 2) THEN <<>> ELSE <<s[i]>>)
        ELSE JSONEscapeByte(s[i])

JSONEscape(s) == ConcatRange([i \in 1..Len(s) |-> JSONEscapeAt(s, i)], 1, Len(s))

JSONQuote(s) == <<34>> \o JSONEscape(s) \o <<34>>

RECURSIVE DecimalDigits(_)
DecimalDigits(n) ==
    IF n < 10 THEN <<48 + n>>
    ELSE DecimalDigits(n \div 10) \o <<48 + (n % 10)>>

\* json.Marshal on a value already laid out as the encoder walks it (struct
\* fields in declaration order, map keys sorted, a nil slice as null, a
\* []byte as the base64 string of its bytes).
RECURSIVE JSONMarshal(_), JSONMarshalElems(_, _), JSONMarshalMembers(_, _)
JSONMarshal(x) ==
    IF x.t = "null" THEN LitNull
    ELSE IF x.t = "bool" THEN (IF x.v[1] = 1 THEN LitTrue ELSE LitFalse)
    ELSE IF x.t = "num" THEN
        (IF x.v[1] < 0 THEN <<45>> \o DecimalDigits(-x.v[1])
         ELSE DecimalDigits(x.v[1]))
    ELSE IF x.t = "str" THEN JSONQuote(x.v)
    ELSE IF x.t = "arr" THEN <<91>> \o JSONMarshalElems(x.v, 1) \o <<93>>
    ELSE <<123>> \o JSONMarshalMembers(x.v, 1) \o <<125>>

JSONMarshalElems(a, i) ==
    IF i > Len(a) THEN <<>>
    ELSE (IF i > 1 THEN <<44>> ELSE <<>>)
         \o JSONMarshal(a[i]) \o JSONMarshalElems(a, i + 1)

JSONMarshalMembers(o, i) ==
    IF i > Len(o) THEN <<>>
    ELSE (IF i > 1 THEN <<44>> ELSE <<>>)
         \o JSONQuote(o[i][1]) \o <<58>> \o JSONMarshal(o[i][2])
         \o JSONMarshalMembers(o, i + 1)

(***************************************************************************)
(* The JSON scanner and decoder (encoding/json scanner.go, decode.go).     *)
(* A parse result is [ok, v, i, err]: the value and the position after it, *)
(* or err = "eof" (the input ended inside a value) or "char" (an invalid   *)
(* character).  Numbers are integers without fraction or exponent.         *)
(***************************************************************************)
ParseFail(e) == [ok |-> FALSE, v |-> JNull, i |-> 0, err |-> e]
ParseOk(v, i) == [ok |-> TRUE, v |-> v, i |-> i, err |-> ""]

IsJSONSpace(c) == c = 32 \/ c = 9 \/ c = 10 \/ c = 13
IsDigit(c) == c >= 48 /\ c <= 57
IsHex(c) == IsDigit(c) \/ (c >= 97 /\ c <= 102) \/ (c >= 65 /\ c <= 70)
HexVal(c) == IF IsDigit(c) THEN c - 48
             ELSE IF c >= 97 THEN c - 97 + 10 ELSE c - 65 + 10

RECURSIVE SkipSpace(_, _)
SkipSpace(s, i) ==
    IF i <= Len(s) /\ IsJSONSpace(s[i]) THEN SkipSpace(s, i + 1) ELSE i

\* utf8.EncodeRune for a code point of the basic plane; a surrogate half
\* decodes to U+FFFD.
UTF8Encode(cp) ==
    LET r == IF cp >= 55296 /\ cp <= 57343 THEN 65533 ELSE cp IN
    IF r < 128 THEN <<r>>
    ELSE IF r < 2048 THEN <<192 + (r \div 64), 128 + (r % 64)>>
    ELSE <<224 + (r \div 4096), 128 + ((r \div 64) % 64), 128 + (r % 64)>>

\* The literal lit expected at position i.
ScanLiteral(s, i, lit, v) ==
    LET avail == Len(s) - i + 1
        k == IF avail < Len(lit) THEN avail ELSE Len(lit)
    IN  IF \E j \in 1..k : s[i + j - 1] # lit[j] THEN ParseFail("char")
        ELSE IF avail < Len(lit) THEN ParseFail("eof")
        ELSE ParseOk(v, i + Len(lit))

RECURSIVE ScanDigits(_, _, _)
ScanDigits(s, i, acc) ==
    IF i <= Len(s) /\ IsDigit(s[i])
    THEN ScanDigits(s, i + 1, acc * 10 + (s[i] - 48))
    ELSE <<acc, i>>

\* A number starting at position i ('-' or a digit).
ScanNumber(s, i) ==
    LET neg == s[i] = 45
        j == IF neg THEN i + 1 ELSE i
    IN  IF j > Len(s) THEN ParseFail("eof")
        ELSE IF ~IsDigit(s[j]) THEN ParseFail("char")
        ELSE IF s[j] = 48 THEN ParseOk(JNum(0), j + 1)
        ELSE LET r == ScanDigits(s, j, 0) IN
             ParseOk(JNum(IF neg THEN -r[1] ELSE r[1]), r[2])

\* The characters of a string from position j on (after the opening
\* quote): the run of plain characters up to the next quote, backslash,
\* control character or byte >= 0x80, then that character.
RECURSIVE ScanString(_, _, _)
ScanString(s, j, acc) ==
    LET special == {p \in j..Len(s) : s[p] = 34 \/ s[p] = 92 \/ s[p] < 32 \/ s[p] >= 128}
        \* \u at position p: avail characters follow the u.
        Unicode(p, run, avail) ==
            IF \E d \in 1..(IF avail < 4 THEN avail ELSE 4) : ~IsHex(s[p + 1 + d])
            THEN ParseFail("char")
            ELSE IF avail < 4 THEN ParseFail("eof")
            ELSE ScanString(s, p + 6,
                   run \o UTF8Encode(HexVal(s[p + 2]) * 4096
                                     + HexVal(s[p + 3]) * 256
                                     + HexVal(s[p + 4]) * 16
                                     + HexVal(s[p + 5])))
        \* A backslash at position p, followed by e.
        Escaped(p, run, e) ==
            IF e = 34 \/ e = 92 \/ e = 47 THEN ScanString(s, p + 2, run \o <<e>>)
            ELSE IF e = 98 THEN ScanString(s, p + 2, run \o <<8>>)
            ELSE IF e = 102 THEN ScanString(s, p + 2, run \o <<12>>)
            ELSE IF e = 110 THEN ScanString(s, p + 2, run \o <<10>>)
            ELSE IF e = 114 THEN ScanString(s, p + 2, run \o <<13>>)
            ELSE IF e = 116 THEN ScanString(s, p + 2, run \o <<9>>)
            ELSE IF e # 117 THEN ParseFail("char")
            ELSE Unicode(p, run, Len(s) - (p + 1))
        \* A byte >= 0x80 at position p, where an encoding of n bytes starts
        \* (n = 0: none, the byte decodes to U+FFFD).
        Rune(p, run, n) ==
            IF n = 0 THEN ScanString(s, p + 1, run \o UTF8Encode(65533))
            ELSE ScanString(s, p + n, run \o SubSeq(s, p, p + n - 1))
        \* The character c at position p, after the characters run.
        Special(p, c, run) ==
            IF c = 34 THEN ParseOk(JStr(run), p + 1)
            ELSE IF c < 32 THEN ParseFail("char")
            ELSE IF c >= 128 THEN Rune(p, run, UTF8RuneLen(s, p))
            ELSE IF p + 1 > Len(s) THEN ParseFail("eof")
            ELSE Escaped(p, run, s[p + 1])
        Stop(p) == Special(p, s[p], acc \o SubSeq(s, j, p - 1))
    IN  IF special = {} THEN ParseFail("eof")
        ELSE Stop(CHOOSE q \in special : \A r \in special : q <= r)

RECURSIVE ParseValue(_, _), ParseElems(_, _, _), ParseMembers(_, _, _)
\* One JSON value from position i on (leading white space skipped).
ParseValue(s, i) ==
    LET Object(k) ==
            IF k > Len(s) THEN ParseFail("eof")
            ELSE IF s[k] = 125 THEN ParseOk(JObj(<<>>), k + 1)
            ELSE ParseMembers(s, k, <<>>)
        Array(k) ==
            IF k > Len(s) THEN ParseFail("eof")
            ELSE IF s[k] = 93 THEN ParseOk(JArr(<<>>), k + 1)
            ELSE ParseElems(s, k, <<>>)
        Begin(j, c) ==
            IF c = 123 THEN Object(SkipSpace(s, j + 1))
            ELSE IF c = 91 THEN Array(SkipSpace(s, j + 1))
            ELSE IF c = 34 THEN ScanString(s, j + 1, <<>>)
            ELSE IF c = 110 THEN ScanLiteral(s, j, LitNull, JNull)
            ELSE IF c = 116 THEN ScanLiteral(s, j, LitTrue, JBool(TRUE))
            ELSE IF c = 102 THEN ScanLiteral(s, j, LitFalse, JBool(FALSE))
            ELSE IF c = 45 \/ IsDigit(c) THEN ScanNumber(s, j)
            ELSE ParseFail("char")
        From(j) == IF j > Len(s) THEN ParseFail("eof") ELSE Begin(j, s[j])
    IN  From(SkipSpace(s, i))

\* The elements of an array from position i on (an element is expected).
ParseElems(s, i, acc) ==
    LET After(r, k) ==
            IF k > Len(s) THEN ParseFail("eof")
            ELSE IF s[k] = 93 THEN ParseOk(JArr(Append(acc, r.v)), k + 1)
            ELSE IF s[k] = 44 THEN ParseElems(s, k + 1, Append(acc, r.v))
            ELSE ParseFail("char")
        Elem(r) == IF ~r.ok THEN r ELSE After(r, SkipSpace(s, r.i))
    IN  Elem(ParseValue(s, i))

\* The members of an object from position i on (a key is expected).
ParseMembers(s, i, acc) ==
    LET After(m, k) ==
            IF k > Len(s) THEN ParseFail("eof")
            ELSE IF s[k] = 125 THEN ParseOk(JObj(m), k + 1)
            ELSE IF s[k] = 44 THEN ParseMembers(s, k + 1, m)
            ELSE ParseFail("char")
        Member(key, r) ==
            IF ~r.ok THEN r
            ELSE After(Append(acc, <<key.v.v, r.v>>), SkipSpace(s, r.i))
        Colon(key, c) ==
            IF c > Len(s) THEN ParseFail("eof")
            ELSE IF s[c] # 58 THEN ParseFail("char")
            ELSE Member(key, ParseValue(s, c + 1))
        Key(key) == IF ~key.ok THEN key ELSE Colon(key, SkipSpace(s, key.i))
        From(j) ==
            IF j > Len(s) THEN ParseFail("eof")
            ELSE IF s[j] # 34 THEN ParseFail("char")
            ELSE Key(ScanString(s, j + 1, <<>>))
    IN  From(SkipSpace(s, i))

(***************************************************************************)
(* Go error values: the dynamic type and the message class.                *)
(***************************************************************************)
NoError == [type |-> "nil", msg |-> ""]
ErrSyntaxEOF == [type |-> "*json.SyntaxError", msg |-> "unexpected end of JSON input"]
ErrSyntaxChar == [type |-> "*json.SyntaxError", msg |-> "invalid character"]
ErrIOEOF == [type |-> "io.EOF", msg |-> "EOF"]
ErrIOUnexpectedEOF == [type |-> "io.ErrUnexpectedEOF", msg |-> "unexpected EOF"]
ErrUnmarshalType == [type |-> "*json.UnmarshalTypeError", msg |-> "json: cannot unmarshal"]
ErrEmptyResponse == [type |-> "*errors.errorString", msg |-> "[GET] Content Key Response is Empty"]
ErrTransport == [type |-> "*url.Error", msg |-> "Post"]
ErrCryptoKey == [type |-> "CryptoError", msg |-> "invalid key size"]
ErrCryptoIV == [type |-> "CryptoError", msg |-> "invalid IV size"]

\* checkValid, as json.Unmarshal runs it over the whole input: one value,
\* then white space only.
JSONCheckValid(data) ==
    LET Scanned(r) ==
            IF ~r.ok THEN [err |-> IF r.err = "eof" THEN ErrSyntaxEOF ELSE ErrSyntaxChar,
                           v |-> JNull]
            ELSE IF SkipSpace(data, r.i) <= Len(data)
                THEN [err |-> ErrSyntaxChar, v |-> JNull]
            ELSE [err |-> NoError, v |-> r.v]
    IN  Scanned(ParseValue(data, 1))

\* Decoder.readValue: the first value of the stream; what follows it is
\* left unread.
JSONReadValue(data) ==
    LET Scanned(r) ==
            IF r.ok THEN [err |-> NoError, v |-> r.v]
            ELSE IF r.err = "char" THEN [err |-> ErrSyntaxChar, v |-> JNull]
            ELSE IF SkipSpace(data, 1) > Len(data) THEN [err |-> ErrIOEOF, v |-> JNull]
            ELSE [err |-> ErrIOUnexpectedEOF, v |-> JNull]
    IN  Scanned(ParseValue(data, 1))

\* strings.ToLower on ASCII.
ToLower(s) == [i \in 1..Len(s) |-> IF s[i] >= 65 /\ s[i] <= 90 THEN s[i] + 32 ELSE s[i]]

\* The Go value a JSON value of a scalar kind stores.
GoScalar(x) == IF x.t = "str" THEN x.v
               ELSE IF x.t = "bool" THEN x.v[1] = 1
               ELSE x.v[1]

\* d.object into a struct: the members in order; a field is found by its
\* name without regard to case, an unknown key is skipped, null leaves the
\* field as it is, a value of another kind than the field's is recorded as
\* an UnmarshalTypeError and decoding goes on.  fields: <<json name, kind,
\* Go field>>.
RECURSIVE DecodeStructFrom(_, _, _, _)
DecodeStructFrom(o, i, fields, acc) ==
    IF i > Len(o) THEN acc
    ELSE LET k == ToLower(o[i][1])
             x == o[i][2]
             hit == {f \in 1..Len(fields) : fields[f][1] = k}
         IN  IF hit = {} \/ x.t = "null"
             THEN DecodeStructFrom(o, i + 1, fields, acc)
             ELSE LET f == fields[CHOOSE h \in hit : TRUE] IN
               IF x.t # f[2]
               THEN DecodeStructFrom(o, i + 1, fields,
                      [acc EXCEPT !.err = IF acc.err = NoError
                                          THEN ErrUnmarshalType ELSE acc.err])
               ELSE DecodeStructFrom(o, i + 1, fields,
                      [acc EXCEPT !.val = [acc.val EXCEPT ![f[3]] = GoScalar(x)]])

(***************************************************************************)
(* Response types.  Of LicenseResponse and ContentKeyResponse the model    *)
(* keeps the scalar fields below; the bodies of the model carry no other   *)
(* field of them.                                                          *)
(***************************************************************************)
LicenseResponseFields ==
    << <<KStatus, "str", "Status">>,
       <<KLicense, "str", "License">>,
       <<KSecurityLevel, "num", "SecurityLevel">> >>
ZeroLicenseResponse == [Status |-> <<>>, License |-> <<>>, SecurityLevel |-> 0]

ContentKeyResponseFields ==
    << <<KStatus, "str", "Status">>,
       <<KAlreadyUsed, "bool", "AlreadyUsed">> >>
ZeroContentKeyResponse == [Status |-> <<>>, AlreadyUsed |-> FALSE]

\* json.Unmarshal(b, &lr), lr a LicenseResponse value: null is a no-op.
UnmarshalLicenseResponse(b) ==
    LET Into(c) ==
            IF c.err # NoError THEN [err |-> c.err, val |-> ZeroLicenseResponse]
            ELSE IF c.v.t = "null" THEN [err |-> NoError, val |-> ZeroLicenseResponse]
            ELSE IF c.v.t # "obj"
                THEN [err |-> ErrUnmarshalType, val |-> ZeroLicenseResponse]
            ELSE DecodeStructFrom(c.v.v, 1, LicenseResponseFields,
                                  [err |-> NoError, val |-> ZeroLicenseResponse])
    IN  Into(JSONCheckValid(b))

\* json.Unmarshal(dec, &output), output a *ContentKeyResponse that points
\* to a fresh struct: null sets the pointer itself to nil.
UnmarshalContentKeyResponse(dec) ==
    LET fresh == [err |-> NoError, isNil |-> FALSE, val |-> ZeroContentKeyResponse]
        Into(c) ==
            IF c.err # NoError THEN [fresh EXCEPT !.err = c.err]
            ELSE IF c.v.t = "null" THEN [fresh EXCEPT !.isNil = TRUE]
            ELSE IF c.v.t # "obj" THEN [fresh EXCEPT !.err = ErrUnmarshalType]
            ELSE DecodeStructFrom(c.v.v, 1, ContentKeyResponseFields, fresh)
    IN  Into(JSONCheckValid(dec))

\* d.object into a map[string]string: every member is stored under its
\* key, a string as it is, null as "", a value of another kind as "" with
\* an UnmarshalTypeError recorded.
RECURSIVE DecodeStringMapFrom(_, _, _)
DecodeStringMapFrom(o, i, acc) ==
    IF i > Len(o) THEN acc
    ELSE LET x == o[i][2]
             s == IF x.t = "str" THEN x.v ELSE <<>>
             e == IF x.t = "str" \/ x.t = "null" \/ acc.err # NoError
                  THEN acc.err ELSE ErrUnmarshalType
         IN  DecodeStringMapFrom(o, i + 1,
                [err |-> e, m |-> Append(acc.m, <<o[i][1], s>>)])

\* json.NewDecoder(body).Decode(&respJSON), respJSON a map[string]string.
\* m: the entries stored, in order (a later entry of a key replaces an
\* earlier one).
DecodeStringMap(body) ==
    LET Into(c) ==
            IF c.err # NoError THEN [err |-> c.err, m |-> <<>>]
            ELSE IF c.v.t = "null" THEN [err |-> NoError, m |-> <<>>]
            ELSE IF c.v.t # "obj" THEN [err |-> ErrUnmarshalType, m |-> <<>>]
            ELSE DecodeStringMapFrom(c.v.v, 1, [err |-> NoError, m |-> <<>>])
    IN  Into(JSONReadValue(body))

MapHas(m, k) == \E i \in 1..Len(m) : m[i][1] = k
MapGet(m, k) ==
    LET hits == {i \in 1..Len(m) : m[i][1] = k} IN
    m[CHOOSE i \in hits : \A j \in hits : j <= i][2]

(***************************************************************************)
(* Hashes and the cipher.  crypto/sha1 and crypto/md5 are not computed:    *)
(* a digest function of the same length (20 and 16 bytes), deterministic   *)
(* in the bytes hashed, stands for each.  A cipher text is the term of the *)
(* key, the IV and the plaintext it was computed from, so that two cipher  *)
(* texts are equal exactly when these are.                                 *)
(***************************************************************************)
RECURSIVE SumRange(_, _, _)
SumRange(f, lo, hi) ==
    IF lo > hi THEN 0
    ELSE IF lo = hi THEN f[lo]
    ELSE LET mid == (lo + hi) \div 2 IN SumRange(f, lo, mid) + SumRange(f, mid + 1, hi)

Digest(b, size, salt) ==
    LET s0 == SumRange([j \in 1..Len(b) |-> b[j] + 1], 1, Len(b))
        s1 == SumRange([j \in 1..Len(b) |-> j * (b[j] + 1)], 1, Len(b))
    IN  [i \in 1..size |-> (salt + 7 * Len(b) + 31 * i + i * i * s0 + i * s1) % 256]

Sha1Sum(p) == Digest(p, 20, 1)

Md5Sum(b) == Digest(b, 16, 5)

NilBytes == [isNil |-> TRUE, key |-> <<>>, iv |-> <<>>, pt |-> <<>>]

AESKeySizes == {16, 24, 32}

\* AESCBCEncrypt(key, iv, plaintext): the cipher text, or the error of a
\* key or an IV whose length the cipher rejects (the block size is 16).
AESCBCEncrypt(key, iv, plaintext) ==
    IF Len(key) \notin AESKeySizes THEN [ct |-> NilBytes, err |-> ErrCryptoKey]
    ELSE IF Len(iv) # 16 THEN [ct |-> NilBytes, err |-> ErrCryptoIV]
    ELSE [ct |-> [isNil |-> FALSE, key |-> key, iv |-> iv, pt |-> plaintext],
          err |-> NoError]

\* A signer whose result depends on how many calls were started before.
generateSignatureCounting(wpv, payload) ==
    LET Result(r) == IF r.err # NoError THEN [sig |-> NilBytes, err |-> r.err]
                     ELSE [sig |-> r.ct, err |-> NoError]
    IN  Result(AESCBCEncrypt(wpv.PartnerRootKey, wpv.PartnerRootIV,
                             Sha1Sum(payload \o <<started>>)))

\* (wp *Proxy) generateSignature(payload)
generateSignature(wpv, payload) ==
    LET Result(r) == IF r.err # NoError THEN [sig |-> NilBytes, err |-> r.err]
                     ELSE [sig |-> r.ct, err |-> NoError]
    IN  Result(AESCBCEncrypt(wpv.PartnerRootKey, wpv.PartnerRootIV, Sha1Sum(payload)))

(***************************************************************************)
(* The Key Governance capability: the test suite's FakeKeyGoverner, whose  *)
(* GenerateContentKey returns nil, and an implementation that derives a    *)
(* 16-byte key from the content identifier.                                *)
(***************************************************************************)
KeyGoverners == {"FakeKeyGoverner", "DerivingKeyGoverner"}

GenerateContentKey(gen, contentID) ==
    IF gen = "FakeKeyGoverner" THEN <<>>
    ELSE Md5Sum(<<107>> \o contentID)

(***************************************************************************)
(* Endpoint resolution.                                                    *)
(***************************************************************************)
\* A resolver that sends every provider to the UAT host.
getCloudLicenseServiceURLAlwaysUAT(provider, purpose) ==
    IF ToLower(purpose) = PurposeKey THEN widevineModularUATGetKeyURL \o WidevineTest
    ELSE IF ToLower(purpose) = PurposeLicense
        THEN widevineModularUATGetLicenseURL \o WidevineTest
    ELSE <<>>

getCloudLicenseServiceURL(provider, purpose) ==
    IF ToLower(purpose) = PurposeKey THEN
        (IF provider = WidevineTest
         THEN widevineModularUATGetKeyURL \o WidevineTest
         ELSE widevineModularProductionGetKeyURL \o WidevineTest)
    ELSE IF ToLower(purpose) = PurposeLicense THEN
        (IF provider = WidevineTest
         THEN widevineModularUATGetLicenseURL \o WidevineTest
         ELSE widevineModularProductionGetLicenseURL \o WidevineTest)
    ELSE <<>>

(***************************************************************************)
(* The envelope codec.  A builder's result carries, besides what the Go    *)
(* function returns, the calls it made: ev, the operations invoked in      *)
(* order, and signed, the payloads handed to generateSignature with the    *)
(* results.                                                                *)
(***************************************************************************)
NilPostBody == [isNil |-> TRUE, request |-> <<>>, signature |-> NilBytes, signer |-> <<>>]

\* A LicenseMessage laid out with each key spec's key and key_id exchanged.
LicenseMessageJSONSwappingKeys(m) ==
    JObj(<< <<KPayload, JStr(m.Payload)>>,
            <<KContentID, JStr(m.ContentID)>>,
            <<KProvider, JStr(m.Provider)>>,
            <<KAllowedTrackTypes, JStr(m.AllowedTrackTypes)>>,
            <<KContentKeySpecs,
              JArr([i \in 1..Len(m.ContentKeySpecs) |->
                     JObj(<< <<KKeyID, JStr(m.ContentKeySpecs[i].Key)>>,
                             <<KKey, JStr(m.ContentKeySpecs[i].KeyID)>>,
                             <<KIV, JStr(m.ContentKeySpecs[i].IV)>>,
                             <<KTrackType, JStr(m.ContentKeySpecs[i].TrackType)>> >>)])>> >>)

\* The LicenseMessage struct as the encoder walks it.
LicenseMessageJSON(m) ==
    JObj(<< <<KPayload, JStr(m.Payload)>>,
            <<KContentID, JStr(m.ContentID)>>,
            <<KProvider, JStr(m.Provider)>>,
            <<KAllowedTrackTypes, JStr(m.AllowedTrackTypes)>>,
            <<KContentKeySpecs,
              JArr([i \in 1..Len(m.ContentKeySpecs) |->
                     JObj(<< <<KKeyID, JStr(m.ContentKeySpecs[i].KeyID)>>,
                             <<KKey, JStr(m.ContentKeySpecs[i].Key)>>,
                             <<KIV, JStr(m.ContentKeySpecs[i].IV)>>,
                             <<KTrackType, JStr(m.ContentKeySpecs[i].TrackType)>> >>)])>> >>)

\* buildLicenseMessage signing the base64 text instead of the JSON bytes.
buildLicenseMessageSignsBase64(wpv, contentID, body) ==
    LET enc == B64Encode(contentID)
        Message(contentKey) ==
            LET contentKeyID == Md5Sum(contentKey) IN
            [Payload |-> body, ContentID |-> enc, Provider |-> wpv.Provider,
             AllowedTrackTypes |-> SD_UHD1,
             ContentKeySpecs |-> << [Key |-> B64Encode(contentKey),
                                     KeyID |-> B64Encode(contentKeyID),
                                     IV |-> <<>>, TrackType |-> <<>>] >>]
        ev == <<"GenerateContentKey", "generateSignature">>
        Return(b64message, payload, sign) ==
            IF sign.err # NoError
            THEN [postBody |-> NilPostBody, err |-> sign.err, ev |-> ev,
                  signed |-> << [payload |-> payload, sig |-> sign.sig, err |-> sign.err] >>]
            ELSE [postBody |-> [isNil |-> FALSE, request |-> b64message,
                                signature |-> sign.sig, signer |-> wpv.Provider],
                  err |-> NoError, ev |-> ev,
                  signed |-> << [payload |-> payload, sig |-> sign.sig, err |-> sign.err] >>]
        Sign(b64message, payload) ==
            Return(b64message, payload, generateSignature(wpv, payload))
        Encode(jsonMessage) == Sign(B64Encode(jsonMessage), B64Encode(jsonMessage))
    IN  Encode(JSONMarshal(LicenseMessageJSON(
                 Message(GenerateContentKey(wpv.ContentKeyGenerator, contentID)))))

\* (wp *Proxy) buildLicenseMessage(contentID, body): the envelope, or the
\* signer's error.
buildLicenseMessage(wpv, contentID, body) ==
    LET enc == B64Encode(contentID)
        Message(contentKey) ==
            LET contentKeyID == Md5Sum(contentKey) IN
            [Payload |-> body, ContentID |-> enc, Provider |-> wpv.Provider,
             AllowedTrackTypes |-> SD_UHD1,
             ContentKeySpecs |-> << [Key |-> B64Encode(contentKey),
                                     KeyID |-> B64Encode(contentKeyID),
                                     IV |-> <<>>, TrackType |-> <<>>] >>]
        ev == <<"GenerateContentKey", "generateSignature">>
        Return(b64message, payload, sign) ==
            IF sign.err # NoError
            THEN [postBody |-> NilPostBody, err |-> sign.err, ev |-> ev,
                  signed |-> << [payload |-> payload, sig |-> sign.sig, err |-> sign.err] >>]
            ELSE [postBody |-> [isNil |-> FALSE, request |-> b64message,
                                signature |-> sign.sig, signer |-> wpv.Provider],
                  err |-> NoError, ev |-> ev,
                  signed |-> << [payload |-> payload, sig |-> sign.sig, err |-> sign.err] >>]
        Sign(b64message, payload) ==
            Return(b64message, payload, generateSignature(wpv, payload))
        Encode(jsonMessage) == Sign(B64Encode(jsonMessage), jsonMessage)
    IN  Encode(JSONMarshal(LicenseMessageJSON(
                 Message(GenerateContentKey(wpv.ContentKeyGenerator, contentID)))))

\* (wp *Proxy) setPolicy(contentID, policy): the map it returns.  tracks is
\* declared nil and grows by one map per track, so it stays nil for a
\* policy without tracks; DRMTypes is stored as given.
setPolicy(contentID, policy) ==
    LET enc == B64Encode(contentID)
        tracks == IF Len(policy.Tracks.e) = 0 THEN NilSlice
                  ELSE Slice([i \in 1..Len(policy.Tracks.e) |->
                                << <<KType, policy.Tracks.e[i]>> >>])
    IN  [content_id |-> enc, tracks |-> tracks,
         drm_types |-> policy.DRMTypes, policy |-> policy.Policy]

\* The policy map as the encoder walks it: keys sorted, a nil slice as
\* null.
PolicyMapJSON(p) ==
    JObj(<< <<KContentID, JStr(p.content_id)>>,
            <<KDrmTypes, IF p.drm_types.isNil THEN JNull
                         ELSE JArr([i \in 1..Len(p.drm_types.e) |-> JStr(p.drm_types.e[i])])>>,
            <<KPolicy, JStr(p.policy)>>,
            <<KTracks, IF p.tracks.isNil THEN JNull
                       ELSE JArr([i \in 1..Len(p.tracks.e) |->
                              JObj([j \in 1..Len(p.tracks.e[i]) |->
                                     <<p.tracks.e[i][j][1], JStr(p.tracks.e[i][j][2])>>])])>> >>)

\* A buildCKMessage that asks the Key Governance capability for a content
\* key before it signs.
buildCKMessageDerivingKey(wpv, policy) ==
    LET ev == <<"GenerateContentKey", "generateSignature">>
        Return(b64payload, jsonPayload, sign) ==
            IF sign.err # NoError
            THEN [postBody |-> NilPostBody, ev |-> ev,
                  signed |-> << [payload |-> jsonPayload, sig |-> sign.sig,
                                 err |-> sign.err] >>]
            ELSE [postBody |-> [isNil |-> FALSE, request |-> b64payload,
                                signature |-> sign.sig, signer |-> wpv.Provider],
                  ev |-> ev,
                  signed |-> << [payload |-> jsonPayload, sig |-> sign.sig,
                                 err |-> sign.err] >>]
        Sign(jsonPayload) ==
            Return(B64Encode(jsonPayload), jsonPayload, generateSignature(wpv, jsonPayload))
    IN  Sign(JSONMarshal(PolicyMapJSON(policy)))

\* (wp *Proxy) buildCKMessage(policy): nil when signing fails.
buildCKMessage(wpv, policy) ==
    LET ev == <<"generateSignature">>
        Return(b64payload, jsonPayload, sign) ==
            IF sign.err # NoError
            THEN [postBody |-> NilPostBody, ev |-> ev,
                  signed |-> << [payload |-> jsonPayload, sig |-> sign.sig,
                                 err |-> sign.err] >>]
            ELSE [postBody |-> [isNil |-> FALSE, request |-> b64payload,
                                signature |-> sign.sig, signer |-> wpv.Provider],
                  ev |-> ev,
                  signed |-> << [payload |-> jsonPayload, sig |-> sign.sig,
                                 err |-> sign.err] >>]
        Sign(jsonPayload) ==
            Return(B64Encode(jsonPayload), jsonPayload, generateSignature(wpv, jsonPayload))
    IN  Sign(JSONMarshal(PolicyMapJSON(policy)))

\* json.Marshal of the envelope map: the text null for a nil map, else the
\* object of its three entries (the signature, a []byte, as the base64
\* string of the cipher text).  The object is kept as the document it
\* denotes, since the cipher text is not computed as bytes.
MarshalPostBody(postBody) ==
    IF postBody.isNil
    THEN [text |-> LitNull, request |-> <<>>, signature |-> NilBytes, signer |-> <<>>]
    ELSE [text |-> <<>>, request |-> postBody.request,
          signature |-> postBody.signature, signer |-> postBody.signer]

(***************************************************************************)
(* The dispatcher after httpCaller.Do has returned a response.             *)
(***************************************************************************)
NilLicenseResponse == [isNil |-> TRUE, val |-> ZeroLicenseResponse]
NilContentKeyResponse == [isNil |-> TRUE, val |-> ZeroContentKeyResponse]

\* A GetLicense that decodes the body of a 200 response only.
GetLicenseFinishChecksStatus(httpStatus, b) ==
    LET Return(r) ==
            IF httpStatus # 200 THEN [resp |-> NilLicenseResponse, err |-> ErrTransport]
            ELSE IF r.err # NoError THEN [resp |-> NilLicenseResponse, err |-> r.err]
            ELSE [resp |-> [isNil |-> FALSE, val |-> r.val], err |-> NoError]
    IN  Return(UnmarshalLicenseResponse(b))

\* GetLicense from ioutil.ReadAll on: b is the body read.
GetLicenseFinish(httpStatus, b) ==
    LET Return(r) ==
            IF r.err # NoError THEN [resp |-> NilLicenseResponse, err |-> r.err]
            ELSE [resp |-> [isNil |-> FALSE, val |-> r.val], err |-> NoError]
    IN  Return(UnmarshalLicenseResponse(b))

\* A GetContentKey that reports a missing response field as the decode
\* error of an empty inner document.
GetContentKeyFinishNoEmptyError(httpStatus, body) ==
    LET Return(u) ==
            IF u.err # NoError THEN [resp |-> NilContentKeyResponse, err |-> u.err]
            ELSE [resp |-> [isNil |-> u.isNil, val |-> u.val], err |-> NoError]
        Decoded(respJSON) ==
            IF respJSON.err # NoError
            THEN [resp |-> NilContentKeyResponse, err |-> respJSON.err]
            ELSE LET resp == IF MapHas(respJSON.m, KResponse)
                             THEN MapGet(respJSON.m, KResponse) ELSE <<>>
                     dec == B64DecodeString(resp)
                 IN  Return(UnmarshalContentKeyResponse(dec.bytes))
    IN  Decoded(DecodeStringMap(body))

\* GetContentKey from the decoding of the response body on.  The error of
\* DecodeString is dropped and the bytes it returned are decoded.
GetContentKeyFinish(httpStatus, body) ==
    LET Return(u) ==
            IF u.err # NoError THEN [resp |-> NilContentKeyResponse, err |-> u.err]
            ELSE [resp |-> [isNil |-> u.isNil, val |-> u.val], err |-> NoError]
        Decoded(respJSON) ==
            IF respJSON.err # NoError
            THEN [resp |-> NilContentKeyResponse, err |-> respJSON.err]
            ELSE IF ~MapHas(respJSON.m, KResponse)
                THEN [resp |-> NilContentKeyResponse, err |-> ErrEmptyResponse]
            ELSE LET resp == MapGet(respJSON.m, KResponse)
                     dec == B64DecodeString(resp)
                 IN  Return(UnmarshalContentKeyResponse(dec.bytes))
    IN  Decoded(DecodeStringMap(body))

(***************************************************************************)
(* Bounds and the inputs of the model.                                     *)
(***************************************************************************)
NumCalls == 2

Calls == 1..NumCalls

TestKey == <<26, 232, 204, 208, 231, 152, 92, 192, 182, 32, 58, 85, 133, 90, 16, 52, 175, 194, 82, 152, 14, 151, 12, 169, 14, 82, 2, 104, 159, 148, 122, 185>>  \* the test suite's testKey (32 bytes)
TestIV == <<213, 140, 233, 84, 32, 59, 124, 154, 154, 157, 70, 127, 89, 131, 146, 73>>  \* the test suite's testIV (16 bytes)
ReadmeKey == <<87, 105, 100, 101, 118, 105, 110, 101, 32, 75, 101, 121>>  \* "Widevine Key"
ReadmeIV == <<87, 105, 100, 101, 118, 105, 110, 101, 32, 105, 118>>  \* "Widevine iv"
Acme == <<97, 99, 109, 101>>  \* acme

\* The configurations NewWidevineProxy is called with.
Configs ==
    { [PartnerRootKey |-> TestKey, PartnerRootIV |-> TestIV,
       Provider |-> WidevineTest, ContentKeyGenerator |-> "FakeKeyGoverner"],
      [PartnerRootKey |-> TestKey, PartnerRootIV |-> TestIV,
       Provider |-> Acme, ContentKeyGenerator |-> "DerivingKeyGoverner"],
      [PartnerRootKey |-> ReadmeKey, PartnerRootIV |-> ReadmeIV,
       Provider |-> WidevineTest, ContentKeyGenerator |-> "DerivingKeyGoverner"],
      [PartnerRootKey |-> TestKey, PartnerRootIV |-> ReadmeIV,
       Provider |-> Acme, ContentKeyGenerator |-> "FakeKeyGoverner"] }

IdT == <<116>>  \* t
IdT2 == <<116, 50>>  \* t2
ChallengeRaw == <<34, 255>>  \* a quote, then a byte that is not UTF-8

ChallengeText == <<60, 195, 169>>  \* <, then the two bytes of U+00E9

\* The arguments of GetLicense: <<contentID, body>>.
LicenseInputs == { <<IdT, ChallengeText>>, <<IdT2, ChallengeRaw>> }

TrackSD == <<83, 68>>  \* SD
TrackHD == <<72, 68>>  \* HD
DrmWidevine == <<87, 73, 68, 69, 86, 73, 78, 69>>  \* WIDEVINE
PolicyDefault == <<100, 101, 102, 97, 117, 108, 116>>  \* default

PolicyTracks == [ContentID |-> IdT, Tracks |-> Slice(<<TrackSD, TrackHD, TrackSD>>),
                 DRMTypes |-> Slice(<<DrmWidevine>>), Policy |-> PolicyDefault]
PolicyEmpty == [ContentID |-> IdT, Tracks |-> Slice(<<>>),
                DRMTypes |-> Slice(<<>>), Policy |-> PolicyDefault]
NoPolicy == [ContentID |-> <<>>, Tracks |-> NilSlice, DRMTypes |-> NilSlice, Policy |-> <<>>]

\* The arguments of GetContentKey: <<contentID, policy>>.
ContentKeyInputs == { <<IdT2, PolicyTracks>>, <<IdT, PolicyEmpty>> }

HTTPStatuses == {200, 500}

StatusOK == <<79, 75>>  \* OK
BodyHTML == <<60, 104, 116, 109, 108, 62>>  \* <html>
BodyDenied == <<123, 34, 115, 116, 97, 116, 117, 115, 34, 58, 34, 100, 101, 110, 105, 101, 100, 34, 125>>  \* {"status":"denied"}
BodyDeniedCode == <<123, 34, 115, 116, 97, 116, 117, 115, 34, 58, 34, 100, 101, 110, 105, 101, 100, 34, 44, 34, 99, 111, 100, 101, 34, 58, 55, 125>>  \* {"status":"denied","code":7}

\* Bodies the license service may answer with, under any status.
LicenseBodies ==
    << JSONMarshal(JObj(<< <<KStatus, JStr(StatusOK)>>, <<KLicense, JStr(<<81, 81, 61, 61>>)>>,
                           <<KSecurityLevel, JNum(3)>> >>)),
       BodyHTML,
       LitNull >>

InnerOK == JSONMarshal(JObj(<< <<KStatus, JStr(StatusOK)>>, <<KAlreadyUsed, JBool(TRUE)>> >>))
OuterWith(resp) == JSONMarshal(JObj(<< <<KStatus, JStr(StatusOK)>>, <<KResponse, JStr(resp)>> >>))

\* Replies the content-key service may give.
ContentKeyReplies ==
    << [status |-> 200, body |-> OuterWith(B64Encode(InnerOK))],
       [status |-> 500, body |-> BodyHTML],
       [status |-> 200, body |-> BodyDenied],
       [status |-> 500, body |-> BodyDeniedCode],
       [status |-> 200, body |-> OuterWith(<<33>>)],                            \* response: "!"
       [status |-> 200, body |-> OuterWith(<<>>)],                              \* response: ""
       [status |-> 200, body |-> OuterWith(B64Encode(LitNull))],                \* base64 of null
       [status |-> 200, body |-> OuterWith(B64Encode(<<123, 125>>) \o <<33>>)],  \* base64 of {}, then "!"
       [status |-> 200, body |-> OuterWith(B64Encode(BodyHTML))] >>             \* base64 of <html>

(***************************************************************************)
(* The state machine.  A call runs from its start to httpCaller.Do in one  *)
(* step (no other call can observe the steps between), waits for the       *)
(* exchange, and runs from the return of Do to its own return in one step. *)
(***************************************************************************)
IdleCall ==
    [pc |-> "idle", op |-> "", contentID |-> <<>>, body |-> <<>>, policy |-> NoPolicy,
     ev |-> <<>>,
     replied |-> FALSE, httpStatus |-> 0, reply |-> <<>>,
     resp |-> NilLicenseResponse, err |-> NoError]

Init ==
    /\ wp \in Configs
    /\ calls = [c \in Calls |-> IdleCall]
    /\ httpLog = {}
    /\ signLog = {}
    /\ started = 0

SignEntries(c, signed) ==
    {[call |-> c, payload |-> signed[i].payload, sig |-> signed[i].sig,
      err |-> signed[i].err] : i \in 1..Len(signed)}

\* GetLicense(contentID, body) up to httpCaller.Do.
GetLicenseCall(c, contentID, body) ==
    /\ calls[c].pc = "idle"
    /\ c = started + 1
    /\ LET mine == [IdleCall EXCEPT !.op = "GetLicense", !.contentID = contentID,
                                    !.body = body]
           Built(msg) ==
               /\ signLog' = signLog \cup SignEntries(c, msg.signed)
               /\ IF msg.err # NoError
                  THEN /\ calls' = [calls EXCEPT ![c] =
                                      [mine EXCEPT !.pc = "done", !.ev = msg.ev,
                                                   !.resp = NilLicenseResponse,
                                                   !.err = msg.err]]
                       /\ httpLog' = httpLog
                  ELSE /\ calls' = [calls EXCEPT ![c] =
                                      [mine EXCEPT !.pc = "awaiting",
                                                   !.ev = Append(msg.ev, "POST")]]
                       /\ httpLog' = httpLog \cup
                            {[call |-> c, n |-> 1,
                              url |-> getCloudLicenseServiceURL(wp.Provider, PurposeLicense),
                              payload |-> MarshalPostBody(msg.postBody)]}
       IN  Built(buildLicenseMessage(wp, contentID, body))
    /\ started' = started + 1
    /\ UNCHANGED wp

\* GetContentKey(contentID, policy) up to httpCaller.Do.  A nil envelope is
\* marshalled (as null) and posted like any other.
GetContentKeyCall(c, contentID, policy) ==
    /\ calls[c].pc = "idle"
    /\ c = started + 1
    /\ LET p == setPolicy(contentID, policy)
           Built(msg) ==
               /\ signLog' = signLog \cup SignEntries(c, msg.signed)
               /\ calls' = [calls EXCEPT ![c] =
                              [IdleCall EXCEPT !.pc = "awaiting", !.op = "GetContentKey",
                                               !.contentID = contentID, !.policy = policy,
                                               !.ev = Append(msg.ev, "POST"),
                                               !.resp = NilContentKeyResponse]]
               /\ httpLog' = httpLog \cup
                    {[call |-> c, n |-> 1,
                      url |-> getCloudLicenseServiceURL(wp.Provider, PurposeKey),
                      payload |-> MarshalPostBody(msg.postBody)]}
       IN  Built(buildCKMessage(wp, p))
    /\ started' = started + 1
    /\ UNCHANGED wp

\* A client that forgets its partner root key when an exchange fails.
TransportFailForgettingKey(c) ==
    /\ calls[c].pc = "awaiting"
    /\ calls' = [calls EXCEPT ![c].pc = "done", ![c].err = ErrTransport]
    /\ wp' = [wp EXCEPT !.PartnerRootKey = <<>>]
    /\ UNCHANGED <<httpLog, signLog, started>>

\* httpCaller.Do returns an error (no connection, a timeout): the call
\* returns it.
TransportFail(c) ==
    /\ calls[c].pc = "awaiting"
    /\ calls' = [calls EXCEPT ![c].pc = "done", ![c].err = ErrTransport]
    /\ UNCHANGED <<wp, httpLog, signLog, started>>

\* A GetLicense that posts the request again when the body does not decode.
LicenseRespondRetrying(c, httpStatus, b) ==
    /\ calls[c].pc = "awaiting"
    /\ calls[c].op = "GetLicense"
    /\ LET Finished(r) ==
               IF r.err # NoError /\ ~\E e \in httpLog : e.call = c /\ e.n = 2
               THEN /\ httpLog' = httpLog \cup
                         {[e EXCEPT !.n = 2] : e \in {x \in httpLog : x.call = c /\ x.n = 1}}
                    /\ calls' = [calls EXCEPT ![c].ev = Append(@, "POST")]
               ELSE /\ httpLog' = httpLog
                    /\ calls' = [calls EXCEPT ![c].pc = "done", ![c].replied = TRUE,
                                              ![c].httpStatus = httpStatus, ![c].reply = b,
                                              ![c].resp = r.resp, ![c].err = r.err]
       IN  Finished(GetLicenseFinish(httpStatus, b))
    /\ UNCHANGED <<wp, signLog, started>>

\* httpCaller.Do returns a response with status httpStatus and body b:
\* GetLicense reads the body, decodes it and returns.
LicenseRespond(c, httpStatus, b) ==
    /\ calls[c].pc = "awaiting"
    /\ calls[c].op = "GetLicense"
    /\ LET Finished(r) ==
               calls' = [calls EXCEPT ![c].pc = "done", ![c].replied = TRUE,
                                      ![c].httpStatus = httpStatus, ![c].reply = b,
                                      ![c].resp = r.resp, ![c].err = r.err]
       IN  Finished(GetLicenseFinish(httpStatus, b))
    /\ UNCHANGED <<wp, httpLog, signLog, started>>

\* httpCaller.Do returns a response with status httpStatus and body b:
\* GetContentKey decodes it in two stages, builds the PSSH for the debug
\* log on success, and returns.
ContentKeyRespond(c, httpStatus, b) ==
    /\ calls[c].pc = "awaiting"
    /\ calls[c].op = "GetContentKey"
    /\ LET Finished(r) ==
               calls' = [calls EXCEPT ![c].pc = "done", ![c].replied = TRUE,
                                      ![c].httpStatus = httpStatus, ![c].reply = b,
                                      ![c].resp = r.resp, ![c].err = r.err,
                                      ![c].ev = IF r.err = NoError
                                                THEN Append(@, "buildPSSH") ELSE @]
       IN  Finished(GetContentKeyFinish(httpStatus, b))
    /\ UNCHANGED <<wp, httpLog, signLog, started>>

Next ==
    \/ \E c \in Calls, in \in LicenseInputs : GetLicenseCall(c, in[1], in[2])
    \/ \E c \in Calls, in \in ContentKeyInputs : GetContentKeyCall(c, in[1], in[2])
    \/ \E c \in Calls : TransportFail(c)
    \/ \E c \in Calls, httpStatus \in HTTPStatuses, i \in 1..Len(LicenseBodies) :
          LicenseRespond(c, httpStatus, LicenseBodies[i])
    \/ \E c \in Calls, i \in 1..Len(ContentKeyReplies) :
          ContentKeyRespond(c, ContentKeyReplies[i].status, ContentKeyReplies[i].body)

Spec == Init /\ [][Next]_vars

(***************************************************************************)
(* Properties.  A call that has sent its request has an entry in httpLog,  *)
(* a call that has signed has an entry in signLog.                         *)
(***************************************************************************)
Posted(c) == {h \in httpLog : h.call = c}
Signed(c) == {s \in signLog : s.call = c}
Returned(c) == calls[c].pc = "done"
Answered(c) == calls[c].pc = "done" /\ calls[c].replied

\* C1: for every envelope either operation builds, the signature is computed
\* over exactly the JSON bytes whose base64 encoding is the envelope's
\* request field: decoding request gives back the bytes handed to the
\* signer, the signature posted is the signer's result for them, and the
\* signer is never given the base64 text.
C1_SignatureOverRequestBytes ==
    \A h \in httpLog :
        h.payload.text = <<>> =>
            /\ Signed(h.call) # {}
            /\ \A s \in Signed(h.call) :
                  /\ s.err = NoError
                  /\ B64DecodeString(h.payload.request) = [bytes |-> s.payload, err |-> FALSE]
                  /\ h.payload.signature = s.sig
                  /\ s.payload # h.payload.request

\* Both operations have built and posted an envelope.
C1_Witness ==
    \E h1, h2 \in httpLog :
        /\ calls[h1.call].op = "GetLicense" /\ h1.payload.text = <<>>
        /\ calls[h2.call].op = "GetContentKey" /\ h2.payload.text = <<>>
        /\ Signed(h1.call) # {} /\ Signed(h2.call) # {}

\* C2: whenever the signer fails, the call returns a failure, whatever the
\* server does: no call whose signing failed returns a decoded response.
C2_SignFailureFails ==
    \A c \in Calls :
        (Returned(c) /\ \E s \in Signed(c) : s.err # NoError) =>
            calls[c].err # NoError /\ calls[c].resp.isNil

\* The stage at which GetContentKey's decoding of a reply body breaks:
\* the transport JSON, the response field, its base64, the inner JSON.
DecodeStage(body) ==
    LET outer == DecodeStringMap(body) IN
    IF outer.err # NoError THEN "outer"
    ELSE IF ~MapHas(outer.m, KResponse) THEN "missing"
    ELSE LET dec == B64DecodeString(MapGet(outer.m, KResponse)) IN
         IF dec.err THEN "base64"
         ELSE IF UnmarshalContentKeyResponse(dec.bytes).err # NoError THEN "inner"
         ELSE "none"

\* C3: GetContentKey's decoding fails distinctly at each stage: a reply that
\* breaks at some stage gives an error, and replies that break at different
\* stages give errors the caller can tell apart.
C3_StagesFailDistinctly ==
    \A c1, c2 \in Calls :
        (/\ Answered(c1) /\ calls[c1].op = "GetContentKey"
         /\ Answered(c2) /\ calls[c2].op = "GetContentKey"
         /\ DecodeStage(calls[c1].reply) # "none"
         /\ DecodeStage(calls[c2].reply) # "none") =>
            /\ calls[c1].err # NoError
            /\ DecodeStage(calls[c1].reply) # DecodeStage(calls[c2].reply)
                  => calls[c1].err # calls[c2].err

\* A reply body that is a JSON object without a response key.
LacksResponse(body) ==
    LET r == JSONReadValue(body) IN
    /\ r.err = NoError
    /\ r.v.t = "obj"
    /\ \A i \in 1..Len(r.v.v) : r.v.v[i][1] # KResponse

\* A reply body that is a JSON object whose values are strings or null.
FlatStringObject(body) ==
    LET r == JSONReadValue(body) IN
    /\ r.err = NoError
    /\ r.v.t = "obj"
    /\ \A i \in 1..Len(r.v.v) : r.v.v[i][2].t \in {"str", "null"}

\* C4 as stated: a reply body that is a valid JSON object without a
\* response key gives the empty-response error and no ContentKeyResponse,
\* whatever its other keys.
C4_MissingResponseAnyObject ==
    \A c \in Calls :
        (Answered(c) /\ calls[c].op = "GetContentKey" /\ LacksResponse(calls[c].reply)) =>
            calls[c].err = ErrEmptyResponse /\ calls[c].resp.isNil

\* C4, amended: a reply body that is a JSON object without a response key
\* and whose values are all strings or null gives the empty-response error
\* and no ContentKeyResponse.
C4_MissingResponseFlatObject ==
    \A c \in Calls :
        (/\ Answered(c) /\ calls[c].op = "GetContentKey"
         /\ LacksResponse(calls[c].reply)
         /\ FlatStringObject(calls[c].reply)) =>
            calls[c].err = ErrEmptyResponse /\ calls[c].resp.isNil

\* GetContentKey has returned on a flat object that has no response key.
C4_Witness ==
    \E c \in Calls :
        /\ Answered(c) /\ calls[c].op = "GetContentKey"
        /\ LacksResponse(calls[c].reply) /\ FlatStringObject(calls[c].reply)
        /\ calls[c].err = ErrEmptyResponse

\* C5: every call that has returned ends in one of two outcomes: a response
\* and no error, or an error and no response.
C5_ResponseXorError ==
    \A c \in Calls :
        Returned(c) =>
            \/ ~calls[c].resp.isNil /\ calls[c].err = NoError
            \/ calls[c].resp.isNil /\ calls[c].err # NoError

HostUAT == <<104, 116, 116, 112, 115, 58, 47, 47, 108, 105, 99, 101, 110, 115, 101, 46, 117, 97, 116, 46, 119, 105, 100, 101, 118, 105, 110, 101, 46, 99, 111, 109, 47, 99, 101, 110, 99, 47>>  \* https://license.uat.widevine.com/cenc/
HostProduction == <<104, 116, 116, 112, 115, 58, 47, 47, 108, 105, 99, 101, 110, 115, 101, 46, 119, 105, 100, 101, 118, 105, 110, 101, 46, 99, 111, 109, 47, 99, 101, 110, 99, 47>>  \* https://license.widevine.com/cenc/
HostStaging == <<104, 116, 116, 112, 115, 58, 47, 47, 108, 105, 99, 101, 110, 115, 101, 46, 115, 116, 97, 103, 105, 110, 103, 46, 119, 105, 100, 101, 118, 105, 110, 101, 46, 99, 111, 109, 47, 99, 101, 110, 99, 47>>  \* https://license.staging.widevine.com/cenc/
PathLicense == <<103, 101, 116, 108, 105, 99, 101, 110, 115, 101, 47>>  \* getlicense/
PathKey == <<103, 101, 116, 99, 111, 110, 116, 101, 110, 116, 107, 101, 121, 47>>  \* getcontentkey/
WidevineTestUpper == <<87, 73, 68, 69, 86, 73, 78, 69, 95, 84, 69, 83, 84>>  \* WIDEVINE_TEST

\* Provider strings: the test provider, another provider, the test
\* provider's name in capitals, the empty string.
ProviderSamples == {WidevineTest, Acme, WidevineTestUpper, <<>>}

\* The URL C7 states for a provider and a purpose.
StatedURL(provider, purpose) ==
    (IF provider = WidevineTest THEN HostUAT ELSE HostProduction)
        \o (IF purpose = PurposeLicense THEN PathLicense ELSE PathKey)
        \o WidevineTest

IsPrefix(p, s) == Len(p) <= Len(s) /\ SubSeq(s, 1, Len(p)) = p

\* C7: for every provider and both purposes the resolver returns
\* host(provider) + path(purpose) + the test-provider literal, the host
\* being the UAT host exactly for the test provider and the production host
\* otherwise; every request is posted to the URL so resolved for the
\* client's provider and the operation's purpose, never to the staging host.
C7_ResolvedURL ==
    /\ \A provider \in ProviderSamples, purpose \in {PurposeLicense, PurposeKey} :
          getCloudLicenseServiceURL(provider, purpose) = StatedURL(provider, purpose)
    /\ \A h \in httpLog :
          /\ h.url = StatedURL(wp.Provider,
                               IF calls[h.call].op = "GetLicense"
                               THEN PurposeLicense ELSE PurposeKey)
          /\ ~IsPrefix(HostStaging, h.url)

\* A client of another provider than the test provider has posted a
\* request of each purpose.
C7_Witness ==
    /\ wp.Provider = Acme
    /\ \E h1, h2 \in httpLog :
          /\ calls[h1.call].op = "GetLicense"
          /\ h1.url = HostProduction \o PathLicense \o WidevineTest
          /\ calls[h2.call].op = "GetContentKey"
          /\ h2.url = HostProduction \o PathKey \o WidevineTest

\* C8: each call issues at most one POST: a call that has not started has
\* sent nothing, and no call, waiting or returned, after a transport
\* failure or a decode failure, has sent a second request.
C8_AtMostOnePost ==
    \A c \in Calls :
        /\ Cardinality(Posted(c)) <= 1
        /\ \A h \in Posted(c) : h.n = 1
        /\ calls[c].pc = "idle" => Posted(c) = {}

\* One call has returned a transport failure and another a decode failure,
\* each after one POST.
C8_Witness ==
    \E c1, c2 \in Calls :
        /\ Returned(c1) /\ ~calls[c1].replied /\ calls[c1].err = ErrTransport
        /\ Cardinality(Posted(c1)) = 1
        /\ Answered(c2) /\ calls[c2].err \in {ErrSyntaxChar, ErrSyntaxEOF}
        /\ Cardinality(Posted(c2)) = 1

\* C9: after a completed exchange GetLicense's outcome depends on the body
\* only: a body that decodes is returned as success under any status, a
\* body that does not decode gives the decoder's error, which is not the
\* transport's error, and two exchanges with the same body end alike.
C9_LicenseOutcomeFromBody ==
    \A c \in Calls :
        (Answered(c) /\ calls[c].op = "GetLicense") =>
            LET u == UnmarshalLicenseResponse(calls[c].reply) IN
            /\ u.err = NoError =>
                  calls[c].err = NoError /\ calls[c].resp = [isNil |-> FALSE, val |-> u.val]
            /\ u.err # NoError =>
                  /\ calls[c].err = u.err
                  /\ calls[c].err.type # ErrTransport.type
                  /\ calls[c].resp.isNil
            /\ \A d \in Calls :
                  (/\ Answered(d) /\ calls[d].op = "GetLicense"
                   /\ calls[d].reply = calls[c].reply) =>
                      calls[d].err = calls[c].err /\ calls[d].resp = calls[c].resp

\* The same decodable body has been returned as success under status 200
\* and under status 500.
C9_Witness ==
    \E c, d \in Calls :
        /\ Answered(c) /\ calls[c].op = "GetLicense" /\ calls[c].httpStatus = 200
        /\ Answered(d) /\ calls[d].op = "GetLicense" /\ calls[d].httpStatus = 500
        /\ calls[c].reply = calls[d].reply
        /\ calls[c].err = NoError /\ ~calls[c].resp.isNil
        /\ calls[c].resp.val.Status = StatusOK

\* The member of a JSON object stored under key k, as a set (empty when
\* the key is absent).
Members(o, k) == {o.v[i][2] : i \in {j \in 1..Len(o.v) : o.v[j][1] = k}}

\* The inner message of a posted envelope: request, base64-decoded and
\* parsed.
InnerMessage(h) == JSONCheckValid(B64DecodeString(h.payload.request).bytes).v

\* C10: a policy whose Tracks list is empty yields an inner message whose
\* tracks field is present and is the empty array.
C10_EmptyTracksArray ==
    \A h \in httpLog :
        (/\ calls[h.call].op = "GetContentKey"
         /\ h.payload.text = <<>>
         /\ Len(calls[h.call].policy.Tracks.e) = 0) =>
            Members(InnerMessage(h), KTracks) = {JArr(<<>>)}

\* C11: the content_id of every content-key inner message is the base64
\* text of policy.ContentID, also when the contentID argument of the call
\* is another identifier.
C11_ContentIDFromPolicy ==
    \A h \in httpLog :
        (calls[h.call].op = "GetContentKey" /\ h.payload.text = <<>>) =>
            Members(InnerMessage(h), KContentID) =
                {JStr(B64Encode(calls[h.call].policy.ContentID))}

\* What a returned call was given: its operation, its arguments and what
\* the exchange answered.
Given(c) ==
    [op |-> calls[c].op, contentID |-> calls[c].contentID, body |-> calls[c].body,
     policy |-> calls[c].policy, replied |-> calls[c].replied,
     httpStatus |-> calls[c].httpStatus, reply |-> calls[c].reply]

\* What a returned call did and returned: the requests it sent, the
\* payloads it signed with their signatures, the operations it invoked and
\* its result.
Outcome(c) ==
    [posted |-> {[url |-> h.url, payload |-> h.payload, n |-> h.n] : h \in Posted(c)},
     signed |-> {[payload |-> s.payload, sig |-> s.sig, err |-> s.err] : s \in Signed(c)},
     ev |-> calls[c].ev, resp |-> calls[c].resp, err |-> calls[c].err]

\* C12: no step of any call, in any interleaving and on success and failure
\* paths alike, changes the configuration (key, IV, provider, Key
\* Governance capability) the client was constructed with; and what a call
\* does and returns is determined by what it was given, whatever the other
\* calls on the client did before or meanwhile.
C12_ConfigNeverWritten ==
    /\ [][wp' = wp]_vars
    /\ [](\A c, d \in Calls :
            (Returned(c) /\ Returned(d) /\ Given(c) = Given(d)) => Outcome(c) = Outcome(d))

\* A GetContentKey call has started and returned a response while an
\* earlier GetLicense call is still waiting for its exchange, and the
\* configuration is one the client can be constructed with.
C12_Witness ==
    /\ wp \in Configs
    /\ \E c, d \in Calls :
        /\ c < d
        /\ calls[c].op = "GetLicense" /\ calls[c].pc = "awaiting"
        /\ calls[d].op = "GetContentKey" /\ Answered(d)
        /\ calls[d].err = NoError /\ ~calls[d].resp.isNil

\* The license envelope h as the spec describes it, for the call that
\* posted it: the inner message carries base64(contentID), the challenge
\* as given, the marker SD_UHD1 and one key spec with base64 of the derived
\* key and base64 of that key's 16-byte hash; the signer is the provider.
LicenseEnvelopeAsStated(h) ==
    LET m == InnerMessage(h)
        contentKey == GenerateContentKey(wp.ContentKeyGenerator, calls[h.call].contentID)
    IN  /\ Members(m, KContentID) = {JStr(B64Encode(calls[h.call].contentID))}
        /\ Members(m, KPayload) = {JStr(calls[h.call].body)}
        /\ Members(m, KAllowedTrackTypes) = {JStr(SD_UHD1)}
        /\ \E specs \in Members(m, KContentKeySpecs) :
              /\ Members(m, KContentKeySpecs) = {specs}
              /\ specs.t = "arr" /\ Len(specs.v) = 1
              /\ Members(specs.v[1], KKey) = {JStr(B64Encode(contentKey))}
              /\ \E id \in Members(specs.v[1], KKeyID) :
                    /\ Members(specs.v[1], KKeyID) = {id}
                    /\ id.t = "str"
                    /\ B64DecodeString(id.v) = [bytes |-> Md5Sum(contentKey), err |-> FALSE]
                    /\ Len(B64DecodeString(id.v).bytes) = 16
        /\ h.payload.signer = wp.Provider

\* C13 as stated: every license envelope, whatever the content identifier
\* and the challenge, is as the spec describes it when the call has built
\* and posted it.
C13_EnvelopeAnyChallenge ==
    \A h \in httpLog :
        (calls[h.call].op = "GetLicense" /\ calls[h.call].pc = "awaiting") =>
            LicenseEnvelopeAsStated(h)

\* C13: every license envelope built for a challenge that is valid UTF-8
\* is, when the call has built and posted it, as the spec describes it:
\* content_id base64(contentID), the challenge unchanged as payload, the
\* marker SD_UHD1, exactly one key spec with base64 of the derived key and
\* base64 of its 16-byte hash, and the provider as signer.
C13_EnvelopeValidUTF8Challenge ==
    \A h \in httpLog :
        (/\ calls[h.call].op = "GetLicense" /\ calls[h.call].pc = "awaiting"
         /\ ValidUTF8(calls[h.call].body)) =>
            LicenseEnvelopeAsStated(h)

\* A license envelope has been posted for a challenge with a character the
\* encoder escapes and a multi-byte one, by a client whose Key Governance
\* capability derives a non-empty key, and it is as the spec describes it.
C13_Witness ==
    \E h \in httpLog :
        /\ calls[h.call].op = "GetLicense"
        /\ calls[h.call].body = ChallengeText
        /\ GenerateContentKey(wp.ContentKeyGenerator, calls[h.call].contentID) # <<>>
        /\ LicenseEnvelopeAsStated(h)

\* The four operations of the KeyGoverner interface.
KeyGovernerOps ==
    {"GenerateContentKeyID", "GenerateContentKey", "GenerateContentIV",
     "GenerateContentKeySpec"}

\* The positions in call c's sequence of invoked operations that hold one
\* of the operations ops.
Invocations(c, ops) == {i \in 1..Len(calls[c].ev) : calls[c].ev[i] \in ops}

\* C14: of the Key Governance operations only GenerateContentKey is ever
\* invoked; a GetLicense call that has run its builder has invoked it
\* exactly once, before any signing and any POST of that call; a
\* GetContentKey call invokes no Key Governance operation.
C14_OnlyKeyDerivation ==
    \A c \in Calls :
        /\ Invocations(c, KeyGovernerOps \ {"GenerateContentKey"}) = {}
        /\ calls[c].op = "GetLicense" =>
              /\ Cardinality(Invocations(c, {"GenerateContentKey"})) = 1
              /\ \A i \in Invocations(c, {"GenerateContentKey"}),
                     j \in Invocations(c, {"generateSignature", "POST"}) : i < j
        /\ calls[c].op = "GetContentKey" => Invocations(c, KeyGovernerOps) = {}

\* A GetLicense call has signed, posted and returned, and a GetContentKey
\* call has posted and returned.
C14_Witness ==
    \E c, d \in Calls :
        /\ calls[c].op = "GetLicense" /\ Returned(c)
        /\ Invocations(c, {"POST"}) # {} /\ Invocations(c, {"generateSignature"}) # {}
        /\ calls[d].op = "GetContentKey" /\ Returned(d)
        /\ Invocations(d, {"POST"}) # {}

====
